---------------------------- MODULE Spec2Model ----------------------------
(***************************************************************************)
(* vita_rename: renames PS Vita zip archives from the param.sfo records    *)
(* they embed.  The model follows src/vita_rename.go: parseSfo on the      *)
(* bytes of one record, task folding the records of one archive into a     *)
(* NameData and renaming the archive, main fanning out one goroutine per   *)
(* archive behind a sync.WaitGroup.                                        *)
(*                                                                         *)
(* Go strings and []byte are sequences of byte values 0..255.  A Go map is *)
(* a function whose DOMAIN is the set of keys present.                     *)
(***************************************************************************)
EXTENDS Integers, Sequences, FiniteSets, TLC

VARIABLES
    files,    \* main: the result of filepath.Glob("*.zip"), a sorted sequence of names
    plan,     \* which call of each goroutine the environment fails: "none", "open", "rename"
    fs,       \* the directory: file name -> archive contents
    proc,     \* the process: "running", "exited" (main returned), "panicked"
    mainpc,   \* main's position: "loop", "wait", "blocked", "return"
    next,     \* main: index of the next file the range loop spawns
    wg,       \* the sync.WaitGroup: [v |-> counter, w |-> waiters]
    pc,       \* each goroutine's position
    r,        \* task: the contents the goroutine's zip.OpenReader opened
    idx,      \* task: how many of r.File the range loop has visited
    m,        \* task: the map the last parseSfo call returned
    data,     \* task: the NameData
    newName,  \* task: the rename target
    outcome   \* what the goroutine printed: "none", "OK", "File Exists"

vars == <<files, plan, fs, proc, mainpc, next, wg, pc, r, idx, m, data, newName, outcome>>

---------------------------------------------------------------------------
(* Bytes and strings *)

\* printable ASCII, codes 32..126 in order
Ascii ==
    << " ", "!", "\"", "#", "$", "%", "&", "'", "(", ")", "*", "+", ",", "-", ".", "/",
       "0", "1", "2", "3", "4", "5", "6", "7", "8", "9", ":", ";", "<", "=", ">", "?",
       "@", "A", "B", "C", "D", "E", "F", "G", "H", "I", "J", "K", "L", "M", "N", "O",
       "P", "Q", "R", "S", "T", "U", "V", "W", "X", "Y", "Z", "[", "\\", "]", "^", "_",
       "grave", "a", "b", "c", "d", "e", "f", "g", "h", "i", "j", "k", "l", "m", "n", "o",
       "p", "q", "r", "s", "t", "u", "v", "w", "x", "y", "z", "{", "|", "}", "~" >>

Ord(c) == 31 + (CHOOSE i \in 1..Len(Ascii) : Ascii[i] = c)

\* the Go string literal whose characters are the elements of t
S(t) == [i \in 1..Len(t) |-> Ord(t[i])]

RECURSIVE Concat(_)
Concat(ss) == IF ss = <<>> THEN <<>> ELSE Head(ss) \o Concat(Tail(ss))

Min(a, b) == IF a <= b THEN a ELSE b

\* Go's < on strings: bytewise lexicographic, a proper prefix is smaller
RECURSIVE StrLess(_, _)
StrLess(a, b) ==
    IF b = <<>> THEN FALSE
    ELSE IF a = <<>> THEN TRUE
    ELSE IF Head(a) # Head(b) THEN Head(a) < Head(b)
    ELSE StrLess(Tail(a), Tail(b))

\* a comparison that ranks a longer version string higher, as a numeric
\* comparison of "10.00" and "2.00" would
StrGreaterByLength(a, b) == IF Len(a) # Len(b) THEN Len(a) > Len(b) ELSE StrLess(b, a)

\* Go's > on strings
StrGreater(a, b) == StrLess(b, a)

\* strings.HasSuffix
HasSuffix(s, suffix) ==
    /\ Len(s) >= Len(suffix)
    /\ SubSeq(s, Len(s) - Len(suffix) + 1, Len(s)) = suffix

\* the %d verb on a non-negative int
RECURSIVE Itoa(_)
Itoa(n) == IF n < 10 THEN <<48 + n>> ELSE Itoa(n \div 10) \o <<48 + (n % 10)>>

\* Go map operations: m[k] = v, and m[k] read with the zero value for a missing key
Put(mp, k, v) == [x \in DOMAIN mp \cup {k} |-> IF x = k THEN v ELSE mp[x]]
Get(mp, k) == IF k \in DOMAIN mp THEN mp[k] ELSE <<>>

K_REGION == S(<<"R","E","G","I","O","N">>)
K_TITLE == S(<<"T","I","T","L","E">>)
K_TITLE_ID == S(<<"T","I","T","L","E","_","I","D">>)
K_APP_VER == S(<<"A","P","P","_","V","E","R">>)
K_VERSION == S(<<"V","E","R","S","I","O","N">>)
K_CATEGORY == S(<<"C","A","T","E","G","O","R","Y">>)
UNK == S(<<"U","N","K">>)
EUR == S(<<"E","U","R">>)
USA == S(<<"U","S","A">>)
JAP == S(<<"J","A","P">>)
ASIA == S(<<"A","S","I","A">>)
AC == S(<<"a","c">>)
ParamSfo == S(<<"p","a","r","a","m",".","s","f","o">>)

\* var regions
regions ==
    [c \in { S(<<"P","C","S","B">>), S(<<"V","C","E","S">>), S(<<"V","L","E","S">>),
             S(<<"P","C","S","F">>),
             S(<<"P","C","S","E">>), S(<<"P","C","S","A">>), S(<<"P","C","S","D">>),
             S(<<"V","C","U","S">>), S(<<"V","L","U","S">>),
             S(<<"P","C","S","G">>), S(<<"P","C","S","C">>), S(<<"V","C","J","S">>),
             S(<<"V","L","J","M">>), S(<<"V","L","J","S">>),
             S(<<"P","C","S","H">>), S(<<"V","C","A","S">>), S(<<"V","L","A","S">>) } |->
        IF c \in { S(<<"P","C","S","B">>), S(<<"V","C","E","S">>), S(<<"V","L","E","S">>),
                   S(<<"P","C","S","F">>) } THEN EUR
        ELSE IF c \in { S(<<"P","C","S","E">>), S(<<"P","C","S","A">>),
                        S(<<"P","C","S","D">>), S(<<"V","C","U","S">>),
                        S(<<"V","L","U","S">>) } THEN USA
        ELSE IF c \in { S(<<"P","C","S","G">>), S(<<"P","C","S","C">>),
                        S(<<"V","C","J","S">>), S(<<"V","L","J","M">>),
                        S(<<"V","L","J","S">>) } THEN JAP
        ELSE ASIA]

\* the characters safeString's Replacer deletes: NUL CR LF \ " / : * ? < > |
Unsafe == {0, 13, 10, 92, 34, 47, 58, 42, 63, 60, 62, 124}

safeString(s) == SelectSeq(s, LAMBDA b : b \notin Unsafe)

---------------------------------------------------------------------------
(* parseSfo *)

\* the magic parseSfo compares with
Magic == 1179865088

\* make([]byte, 10000000) in task
CaptureSize == 10000000

\* binary.Size of Header and of Index
HeaderSize == 20
IndexSize == 16

\* A []byte of length len whose bytes are data followed by zeroes: task's
\* buffer after rc.Read filled its first Len(data) bytes.
Buf(bytes, n) == [data |-> bytes, len |-> n]

\* sfob[i], i counted from 0
ByteAt(sfob, i) == IF i < Len(sfob.data) THEN sfob.data[i + 1] ELSE 0

\* sfob[lo:hi] once the bounds are known to be in range
Slice(sfob, lo, hi) == [i \in 1..(hi - lo) |-> ByteAt(sfob, lo + i - 1)]

\* the slice expression's run-time check: 0 <= lo <= hi <= cap
InRange(lo, hi, cap) == 0 <= lo /\ lo <= hi /\ hi <= cap

\* int32 bounds; TLC's own integers are 32 bits wide, so the wrapping sum is
\* computed without leaving that range
MaxInt32 == 2147483647
MinInt32 == -2147483647 - 1

\* a + b on int32 operands, wrapping
Add32(a, b) ==
    IF a >= 0 /\ b >= 0 /\ a > MaxInt32 - b THEN (a - MaxInt32 - 1) + (b - MaxInt32 - 1)
    ELSE IF a < 0 /\ b < 0 /\ a < MinInt32 - b THEN (a + MaxInt32 + 1) + (b + MaxInt32 + 1)
    ELSE a + b

\* binary.LittleEndian decoding of an int32 / int16 field at offset off
Signed8(b) == IF b >= 128 THEN b - 256 ELSE b
Int32At(sfob, off) ==
    ByteAt(sfob, off) + 256 * ByteAt(sfob, off + 1) + 65536 * ByteAt(sfob, off + 2)
    + 16777216 * Signed8(ByteAt(sfob, off + 3))
Int16At(sfob, off) == ByteAt(sfob, off) + 256 * Signed8(ByteAt(sfob, off + 1))

\* binary.Read of size bytes at position pos of the bytes.Buffer, as check sees
\* it: "ok", "eof" (nothing left: io.EOF, which check lets pass and which
\* leaves the struct zero) or "panic" (io.ErrUnexpectedEOF)
ReadAt(sfob, pos, size) ==
    IF sfob.len - pos >= size THEN "ok"
    ELSE IF sfob.len - pos <= 0 THEN "eof"
    ELSE "panic"

ReadHeader(sfob) ==
    IF ReadAt(sfob, 0, HeaderSize) = "ok"
    THEN [Magic |-> Int32At(sfob, 0), Version |-> Int32At(sfob, 4),
          KeyOffset |-> Int32At(sfob, 8), DataOffset |-> Int32At(sfob, 12),
          Entries |-> Int32At(sfob, 16)]
    ELSE [Magic |-> 0, Version |-> 0, KeyOffset |-> 0, DataOffset |-> 0, Entries |-> 0]

ReadIndex(sfob, pos) ==
    IF ReadAt(sfob, pos, IndexSize) = "ok"
    THEN [KeyOffset |-> Int16At(sfob, pos), ParamFmt |-> Int16At(sfob, pos + 2),
          ParamLength |-> Int32At(sfob, pos + 4), ParamMaxLength |-> Int32At(sfob, pos + 8),
          DataTableOffset |-> Int32At(sfob, pos + 12)]
    ELSE [KeyOffset |-> 0, ParamFmt |-> 0, ParamLength |-> 0, ParamMaxLength |-> 0,
          DataTableOffset |-> 0]

\* bytes.Trim(slice, "\x00"): leading and trailing NULs removed
RECURSIVE TrimLeft(_)
TrimLeft(s) == IF s # <<>> /\ Head(s) = 0 THEN TrimLeft(Tail(s)) ELSE s
RECURSIVE TrimRight(_)
TrimRight(s) ==
    IF s # <<>> /\ s[Len(s)] = 0 THEN TrimRight(SubSeq(s, 1, Len(s) - 1)) ELSE s
Trim(s) == TrimRight(TrimLeft(s))

\* bytes.Split(slice, "\x00"): one more element than there are NULs, so one
\* empty element for an empty slice
RECURSIVE SplitFrom(_, _)
SplitFrom(s, cur) ==
    IF s = <<>> THEN <<cur>>
    ELSE IF Head(s) = 0 THEN <<cur>> \o SplitFrom(Tail(s), <<>>)
    ELSE SplitFrom(Tail(s), Append(cur, Head(s)))
Split(s) == SplitFrom(s, <<>>)

\* map[string]string{"REGION": "UNK"}
DefaultMap == [k \in {K_REGION} |-> UNK]

Returned(mp) == [panic |-> FALSE, m |-> mp]
Panicked == [panic |-> TRUE, m |-> DefaultMap]

\* "generate a custom REGION key with TITLE_ID": tid[0:4] panics on a value
\* shorter than four bytes; REGION is assigned only when the code is in regions
WithRegion(mp) ==
    IF K_TITLE_ID \notin DOMAIN mp THEN Returned(mp)
    ELSE IF Len(mp[K_TITLE_ID]) < 4 THEN Panicked
    ELSE LET regCode == SubSeq(mp[K_TITLE_ID], 1, 4)
         IN  IF regCode \in DOMAIN regions
             THEN Returned(Put(mp, K_REGION, regions[regCode]))
             ELSE Returned(mp)

\* the Index that iteration in (counted from 0) reads, and its start and end
IndexAt(sfob, in) == ReadIndex(sfob, HeaderSize + IndexSize * in)
StartOf(sfob, h, in) == Add32(h.DataOffset, IndexAt(sfob, in).DataTableOffset)
EndOf(sfob, h, in) == Add32(StartOf(sfob, h, in), IndexAt(sfob, in).ParamLength)

\* one iteration of "for in, k := range keys": in counted from 0
ParseEntry(sfob, h, in, k, mp) ==
    LET pos == HeaderSize + IndexSize * in
        start == StartOf(sfob, h, in)
        end == EndOf(sfob, h, in)
    IN  IF ReadAt(sfob, pos, IndexSize) = "panic" THEN Panicked
        ELSE IF ~InRange(start, end, sfob.len) THEN Panicked
        ELSE WithRegion(Put(mp, k, safeString(Slice(sfob, start, end))))

RECURSIVE ParseKeys(_, _, _, _, _)
ParseKeys(sfob, h, keys, in, mp) ==
    IF in >= Len(keys) THEN Returned(mp)
    ELSE LET res == ParseEntry(sfob, h, in, keys[in + 1], mp)
         IN  IF res.panic THEN Panicked
             ELSE ParseKeys(sfob, h, keys, in + 1, res.m)

\* keys: the key table trimmed and split
KeysOf(sfob, h) == Split(Trim(Slice(sfob, h.KeyOffset, h.DataOffset)))

parseSfo(sfob) ==
    LET h == ReadHeader(sfob)
    IN  IF ReadAt(sfob, 0, HeaderSize) = "panic" THEN Panicked
        ELSE IF h.Magic # Magic THEN Returned(DefaultMap)
        ELSE IF ~InRange(h.KeyOffset, h.DataOffset, sfob.len) THEN Panicked
        ELSE ParseKeys(sfob, h, KeysOf(sfob, h), 0, DefaultMap)

---------------------------------------------------------------------------
(* The records the archives of the model embed, laid out as struct Header   *)
(* and struct Index describe: header, one Index per key, the key table,     *)
(* the data table.                                                          *)

\* binary.LittleEndian encoding of an int32 / int16
Enc32(n) == << n % 256, (n \div 256) % 256, (n \div 65536) % 256, (n \div 16777216) % 256 >>
Enc16(n) == << n % 256, (n \div 256) % 256 >>

\* bytes with the int32 field at offset off replaced by n
Patch32(bytes, off, n) ==
    [i \in 1..Len(bytes) |-> IF i > off /\ i <= off + 4 THEN Enc32(n)[i - off] ELSE bytes[i]]

\* the NUL-terminated strings of kv, column c, one after the other
RECURSIVE Table(_, _)
Table(kv, c) == IF kv = <<>> THEN <<>> ELSE Head(kv)[c] \o <<0>> \o Table(Tail(kv), c)

\* the offset of element i of that table
RECURSIVE TableOffset(_, _, _)
TableOffset(kv, c, i) == IF i <= 1 THEN 0 ELSE Len(kv[i - 1][c]) + 1 + TableOffset(kv, c, i - 1)

\* the Index table of kv: utf8 values (ParamFmt 0x0204), the NUL counted in ParamLength
RECURSIVE IndexTable(_, _)
IndexTable(kv, i) ==
    IF i > Len(kv) THEN <<>>
    ELSE Enc16(TableOffset(kv, 1, i)) \o Enc16(516) \o Enc32(Len(kv[i][2]) + 1)
         \o Enc32(Len(kv[i][2]) + 1) \o Enc32(TableOffset(kv, 2, i)) \o IndexTable(kv, i + 1)

KeyTableAt(kv) == HeaderSize + IndexSize * Len(kv)
DataTableAt(kv) == KeyTableAt(kv) + Len(Table(kv, 1))

\* a well-formed record holding the <<key, value>> pairs kv in order
Sfo(kv) ==
    Enc32(Magic) \o Enc32(257) \o Enc32(KeyTableAt(kv)) \o Enc32(DataTableAt(kv))
    \o Enc32(Len(kv)) \o IndexTable(kv, 1) \o Table(kv, 1) \o Table(kv, 2)

\* offsets of the fields the malformed records overwrite
OffMagic == 0
OffKeyOffset == 8
OffDataOffset == 12
OffParamLength(i) == HeaderSize + IndexSize * (i - 1) + 4
OffDataTableOffset(i) == HeaderSize + IndexSize * (i - 1) + 12

---------------------------------------------------------------------------
(* The archives of the model *)

\* how many param.sfo entries an archive of SpecFold holds at most
MaxEntries == 2
\* how many archives the directory of Spec holds at most
NumArchives == 2

V_1_00 == S(<<"1",".","0","0">>)
V_2_00 == S(<<"2",".","0","0">>)
V_9_00 == S(<<"9",".","0","0">>)
V_10_00 == S(<<"1","0",".","0","0">>)
ID_USA == S(<<"P","C","S","E","0","0","0","0","1">>)
ID_EUR == S(<<"P","C","S","B","0","0","0","0","0">>)
ID_NONE == S(<<"X","X","X","X","0","0","0","0","1">>)
GD == S(<<"g","d">>)

\* a base game: {TITLE, APP_VER 2.00, VERSION 1.00, TITLE_ID, CATEGORY gd}
KvBase ==
    << <<K_TITLE, S(<<"G","a","m","e">>)>>, <<K_APP_VER, V_2_00>>, <<K_VERSION, V_1_00>>,
       <<K_TITLE_ID, ID_USA>>, <<K_CATEGORY, GD>> >>
\* a patch: TITLE_ID first, a title to sanitize, APP_VER 10.00, VERSION 2.00, CATEGORY ac
KvPatch ==
    << <<K_TITLE_ID, ID_EUR>>, <<K_TITLE, S(<<"G",":","2","/","*">>)>>, <<K_APP_VER, V_10_00>>,
       <<K_VERSION, V_2_00>>, <<K_CATEGORY, AC>> >>
\* add-on content without APP_VER
KvDlc ==
    << <<K_TITLE, S(<<"D","L","C">>)>>, <<K_VERSION, V_9_00>>, <<K_CATEGORY, AC>>,
       <<K_TITLE_ID, ID_USA>> >>
\* APP_VER without TITLE or VERSION, a TITLE_ID prefix regions does not hold
KvBare == << <<K_APP_VER, V_1_00>>, <<K_TITLE_ID, ID_NONE>> >>
\* TITLE_ID twice, a known prefix and then an unknown one
KvTwice ==
    << <<K_TITLE_ID, ID_EUR>>, <<K_TITLE, S(<<"T","w">>)>>, <<K_TITLE_ID, ID_NONE>>,
       <<K_APP_VER, V_1_00>> >>
\* a REGION key of the record's own
KvRegion ==
    << <<K_TITLE_ID, ID_NONE>>, <<K_REGION, S(<<"F","O","O">>)>>, <<K_TITLE, S(<<"R","g">>)>> >>
\* a TITLE_ID of three bytes (ParamLength 4 counts its NUL)
KvShortId == << <<K_TITLE, S(<<"S","h">>)>>, <<K_TITLE_ID, S(<<"P","C","S">>)>> >>

SfoBase == Sfo(KvBase)
SfoPatch == Sfo(KvPatch)
SfoDlc == Sfo(KvDlc)
SfoBare == Sfo(KvBare)
SfoTwice == Sfo(KvTwice)
SfoRegion == Sfo(KvRegion)
SfoShortId == Sfo(KvShortId)
SfoBadMagic == Patch32(SfoBase, OffMagic, 0)
SfoNegKey == Patch32(SfoBase, OffKeyOffset, -1)
SfoKeyPastData == Patch32(SfoBase, OffKeyOffset, DataTableAt(KvBase) + 1)
SfoDataPastEnd == Patch32(SfoBase, OffDataOffset, CaptureSize + 1)
\* the value of entry 2 (APP_VER) runs past the end of the buffer
SfoValuePastEnd == Patch32(SfoBase, OffParamLength(2), CaptureSize)
\* the value of entry 2 starts before the buffer
SfoValueNegative == Patch32(SfoBase, OffDataTableOffset(2), MinInt32)

N_ParamSfo == S(<<"s","c","e","_","s","y","s","/">>) \o ParamSfo
N_Eboot == S(<<"e","b","o","o","t",".","b","i","n">>)

\* one zip entry: its name, its bytes, how many of them rc.Read returns, and
\* whether m.Open() or rc.Read fails
ZipEntry(name, bytes, got, openErr, readErr) ==
    [name |-> name, bytes |-> bytes, got |-> got, openErr |-> openErr, readErr |-> readErr]
SfoEntry(bytes) == ZipEntry(N_ParamSfo, bytes, Len(bytes), FALSE, FALSE)

Entry ==
    [ base |-> SfoEntry(SfoBase), patch |-> SfoEntry(SfoPatch), dlc |-> SfoEntry(SfoDlc),
      bare |-> SfoEntry(SfoBare), twice |-> SfoEntry(SfoTwice),
      region |-> SfoEntry(SfoRegion), shortId |-> SfoEntry(SfoShortId),
      badMagic |-> SfoEntry(SfoBadMagic), negKey |-> SfoEntry(SfoNegKey),
      keyPastData |-> SfoEntry(SfoKeyPastData), dataPastEnd |-> SfoEntry(SfoDataPastEnd),
      valuePastEnd |-> SfoEntry(SfoValuePastEnd),
      valueNegative |-> SfoEntry(SfoValueNegative),
      empty |-> SfoEntry(<<>>),
      shortRead |-> ZipEntry(N_ParamSfo, SfoBase, DataTableAt(KvBase) + 10, FALSE, FALSE),
      eboot |-> ZipEntry(N_Eboot, SfoPatch, Len(SfoPatch), FALSE, FALSE),
      openErr |-> ZipEntry(N_ParamSfo, SfoBase, 0, TRUE, FALSE),
      readErr |-> ZipEntry(N_ParamSfo, SfoBase, 0, FALSE, TRUE) ]

EntryIds == DOMAIN Entry

\* the entry lists of the archives Spec puts in the directory
ArchiveKinds ==
    { <<"base">>, <<"dlc">>, <<"negKey">>, <<"eboot", "patch">> }

\* "a.zip", "b.zip", ...
ZipName(i) == <<96 + i>> \o S(<<".","z","i","p">>)

\* a zip file: which file it was when the run began, and the ids of its entries
\* in order
Archive(origin, entries) == [origin |-> origin, entries |-> entries]

---------------------------------------------------------------------------
(* task *)

\* NameData{}
EmptyData ==
    [title |-> <<>>, appVer |-> <<>>, version |-> <<>>, titleId |-> <<>>, region |-> <<>>,
     ac |-> 0]

\* what rc.Read left in sfob := make([]byte, 10000000)
Capture(e) == Buf(SubSeq(e.bytes, 1, Min(e.got, CaptureSize)), CaptureSize)

\* the fold with title, titleId and region following the highest APP_VER
FoldTitleOfHighest(d, mp) ==
    LET d1 == IF Get(mp, K_CATEGORY) = AC THEN [d EXCEPT !.ac = @ + 1] ELSE d
        higher == StrGreater(Get(mp, K_APP_VER), d1.appVer)
    IN  IF K_APP_VER \in DOMAIN mp
        THEN [d1 EXCEPT
                !.appVer = IF higher THEN mp[K_APP_VER] ELSE @,
                !.version = IF StrGreater(Get(mp, K_VERSION), d1.version)
                            THEN Get(mp, K_VERSION) ELSE @,
                !.title = IF higher THEN Get(mp, K_TITLE) ELSE @,
                !.titleId = IF higher THEN Get(mp, K_TITLE_ID) ELSE @,
                !.region = IF higher THEN Get(mp, K_REGION) ELSE @]
        ELSE d1

\* the fold with the assignment of title, titleId and region outside the
\* APP_VER test
FoldEveryRecord(d, mp) ==
    LET d1 == IF Get(mp, K_CATEGORY) = AC THEN [d EXCEPT !.ac = @ + 1] ELSE d
        d2 == IF K_APP_VER \in DOMAIN mp
              THEN [d1 EXCEPT
                      !.appVer = IF StrGreater(mp[K_APP_VER], d1.appVer)
                                 THEN mp[K_APP_VER] ELSE @,
                      !.version = IF StrGreater(Get(mp, K_VERSION), d1.version)
                                  THEN Get(mp, K_VERSION) ELSE @]
              ELSE d1
    IN  [d2 EXCEPT !.title = Get(mp, K_TITLE), !.titleId = Get(mp, K_TITLE_ID),
                   !.region = Get(mp, K_REGION)]

\* the fold with the CATEGORY test inside the APP_VER test
FoldAcQualifying(d, mp) ==
    IF K_APP_VER \in DOMAIN mp
    THEN [d EXCEPT
            !.ac = IF Get(mp, K_CATEGORY) = AC THEN @ + 1 ELSE @,
            !.appVer = IF StrGreater(mp[K_APP_VER], d.appVer) THEN mp[K_APP_VER] ELSE @,
            !.version = IF StrGreater(Get(mp, K_VERSION), d.version)
                        THEN Get(mp, K_VERSION) ELSE @,
            !.title = Get(mp, K_TITLE),
            !.titleId = Get(mp, K_TITLE_ID),
            !.region = Get(mp, K_REGION)]
    ELSE d

\* the body of "if strings.HasSuffix(m.Name, "param.sfo")" after parseSfo returned mp
Fold(d, mp) ==
    LET d1 == IF Get(mp, K_CATEGORY) = AC THEN [d EXCEPT !.ac = @ + 1] ELSE d
    IN  IF K_APP_VER \in DOMAIN mp
        THEN [d1 EXCEPT
                !.appVer = IF StrGreater(mp[K_APP_VER], d1.appVer) THEN mp[K_APP_VER] ELSE @,
                !.version = IF StrGreater(Get(mp, K_VERSION), d1.version)
                            THEN Get(mp, K_VERSION) ELSE @,
                !.title = Get(mp, K_TITLE),
                !.titleId = Get(mp, K_TITLE_ID),
                !.region = Get(mp, K_REGION)]
        ELSE d1

\* "Rename the zip file if we got new info"
ShouldRename(d) == d.title # <<>>

\* fmt.Sprintf("%s (%s-%s-%d) [%s] (%s).zip", ...)
Sprintf(d) ==
    Concat(<< d.title, S(<<" ","(">>), d.appVer, S(<<"-">>), d.version, S(<<"-">>),
              Itoa(d.ac), S(<<")"," ","[">>), d.titleId, S(<<"]"," ","(">>), d.region,
              S(<<")",".","z","i","p">>) >>)

\* os.Stat(name) finds the file
Exists(dir, name) == name \in DOMAIN dir

\* a rename that leaves an existing target alone
RenameNoReplace(dir, old, new) ==
    IF new \in DOMAIN dir THEN dir
    ELSE [n \in (DOMAIN dir \ {old}) \cup {new} |-> IF n = new THEN dir[old] ELSE dir[n]]

\* the directory after a successful os.Rename(old, new): new is replaced if there
Rename(dir, old, new) ==
    [n \in (DOMAIN dir \ {old}) \cup {new} |-> IF n = new THEN dir[old] ELSE dir[n]]

Workers == 1..Len(files)

\* a panic nobody recovers ends the process
Panic(w, where) ==
    /\ proc' = "panicked"
    /\ pc' = [pc EXCEPT ![w] = where]

\* r, err := zip.OpenReader(file); check(err); data := NameData{}
TaskOpen(w) ==
    /\ proc = "running" /\ pc[w] = "open"
    /\ IF plan[w] = "open" \/ ~Exists(fs, files[w])
       THEN Panic(w, "panic") /\ UNCHANGED <<r, data>>
       ELSE /\ r' = [r EXCEPT ![w] = fs[files[w]]]
            /\ data' = [data EXCEPT ![w] = EmptyData]
            /\ pc' = [pc EXCEPT ![w] = "range"]
            /\ proc' = proc
    /\ UNCHANGED <<files, plan, fs, mainpc, next, wg, idx, m, newName, outcome>>

\* one iteration of "for _, m := range r.File"
TaskEntry(w) ==
    /\ proc = "running" /\ pc[w] = "range" /\ idx[w] < Len(r[w].entries)
    /\ idx' = [idx EXCEPT ![w] = @ + 1]
    /\ LET e == Entry[r[w].entries[idx[w] + 1]]
           res == parseSfo(Capture(e))
       IN  IF ~HasSuffix(e.name, ParamSfo)
           THEN UNCHANGED <<proc, pc, m, data>>
           ELSE IF e.openErr \/ e.readErr \/ res.panic
           THEN Panic(w, "panic") /\ UNCHANGED <<m, data>>
           ELSE /\ m' = [m EXCEPT ![w] = res.m]
                /\ data' = [data EXCEPT ![w] = Fold(@, res.m)]
                /\ UNCHANGED <<proc, pc>>
    /\ UNCHANGED <<files, plan, fs, mainpc, next, wg, r, newName, outcome>>

\* r.Close(); if data.title != "" { newName := ... }
TaskName(w) ==
    /\ proc = "running" /\ pc[w] = "range" /\ idx[w] = Len(r[w].entries)
    /\ IF ShouldRename(data[w])
       THEN /\ newName' = [newName EXCEPT ![w] = Sprintf(data[w])]
            /\ pc' = [pc EXCEPT ![w] = "stat"]
       ELSE /\ pc' = [pc EXCEPT ![w] = "defer"]
            /\ UNCHANGED newName
    /\ UNCHANGED <<files, plan, fs, proc, mainpc, next, wg, r, idx, m, data, outcome>>

\* if _, err := os.Stat(newName); os.IsNotExist(err) { ... } else { "File Exists!" }
TaskStat(w) ==
    /\ proc = "running" /\ pc[w] = "stat"
    /\ IF Exists(fs, newName[w])
       THEN /\ outcome' = [outcome EXCEPT ![w] = "File Exists"]
            /\ pc' = [pc EXCEPT ![w] = "defer"]
       ELSE /\ pc' = [pc EXCEPT ![w] = "rename"]
            /\ UNCHANGED outcome
    /\ UNCHANGED <<files, plan, fs, proc, mainpc, next, wg, r, idx, m, data, newName>>

\* err := os.Rename(file, newName); check(err); "OK!"
TaskRename(w) ==
    /\ proc = "running" /\ pc[w] = "rename"
    /\ IF plan[w] = "rename" \/ ~Exists(fs, files[w])
       THEN Panic(w, "panic") /\ UNCHANGED <<fs, outcome>>
       ELSE /\ fs' = Rename(fs, files[w], newName[w])
            /\ outcome' = [outcome EXCEPT ![w] = "OK"]
            /\ pc' = [pc EXCEPT ![w] = "defer"]
            /\ proc' = proc
    /\ UNCHANGED <<files, plan, mainpc, next, wg, r, idx, m, data, newName>>

---------------------------------------------------------------------------
(* main and the goroutines *)

\* wg.Add(1), the goroutine's first statement.  sync.WaitGroup panics
\* ("WaitGroup misuse: Add called concurrently with Wait") when the counter
\* leaves zero while a waiter is registered.
GoAdd(w) ==
    /\ proc = "running" /\ pc[w] = "start"
    /\ wg' = [wg EXCEPT !.v = @ + 1]
    /\ IF wg.w # 0 /\ wg.v = 0
       THEN Panic(w, "misuse")
       ELSE pc' = [pc EXCEPT ![w] = "open"] /\ proc' = proc
    /\ UNCHANGED <<files, plan, fs, mainpc, next, r, idx, m, data, newName, outcome>>

\* defer wg.Done(): the counter goes down; the goroutine that brings it to
\* zero with main waiting goes on to release main
GoDone(w) ==
    /\ proc = "running" /\ pc[w] = "defer"
    /\ wg' = [wg EXCEPT !.v = @ - 1]
    /\ pc' = [pc EXCEPT ![w] = IF wg.v = 1 /\ wg.w # 0 THEN "release" ELSE "exit"]
    /\ UNCHANGED <<files, plan, fs, proc, mainpc, next, r, idx, m, data, newName, outcome>>

\* wg.Done(), second half: the state is reset and the waiter woken
GoRelease(w) ==
    /\ proc = "running" /\ pc[w] = "release"
    /\ wg' = [v |-> 0, w |-> 0]
    /\ mainpc' = "return"
    /\ pc' = [pc EXCEPT ![w] = "exit"]
    /\ UNCHANGED <<files, plan, fs, proc, next, r, idx, m, data, newName, outcome>>

\* for _, file := range files { f := file; go func() { ... }() }
MainSpawn ==
    /\ proc = "running" /\ mainpc = "loop" /\ next <= Len(files)
    /\ pc' = [pc EXCEPT ![next] = "start"]
    /\ next' = next + 1
    /\ UNCHANGED <<files, plan, fs, proc, mainpc, wg, r, idx, m, data, newName, outcome>>

\* wg.Wait(): returns at once on a zero counter, else registers as waiter and sleeps
MainWait ==
    /\ proc = "running" /\ mainpc = "loop" /\ next > Len(files)
    /\ IF wg.v = 0
       THEN mainpc' = "return" /\ wg' = wg
       ELSE mainpc' = "blocked" /\ wg' = [wg EXCEPT !.w = 1]
    /\ UNCHANGED <<files, plan, fs, proc, next, pc, r, idx, m, data, newName, outcome>>

\* main returns: the process exits, whatever the goroutines are doing
MainReturn ==
    /\ proc = "running" /\ mainpc = "return"
    /\ proc' = "exited"
    /\ UNCHANGED <<files, plan, fs, mainpc, next, wg, pc, r, idx, m, data, newName, outcome>>

\* the program started in a directory holding the archives dir, in Glob's
\* order; fails says which call of which goroutine the environment fails
Start(names, dir, fails) ==
    /\ files = names
    /\ fs = dir
    /\ plan = fails
    /\ proc = "running"
    /\ mainpc = "loop"
    /\ next = 1
    /\ wg = [v |-> 0, w |-> 0]
    /\ pc = [w \in DOMAIN names |-> "unborn"]
    /\ r = [w \in DOMAIN names |-> Archive(<<>>, <<>>)]
    /\ idx = [w \in DOMAIN names |-> 0]
    /\ m = [w \in DOMAIN names |-> <<>>]
    /\ data = [w \in DOMAIN names |-> EmptyData]
    /\ newName = [w \in DOMAIN names |-> <<>>]
    /\ outcome = [w \in DOMAIN names |-> "none"]

Names(n) == [i \in 1..n |-> ZipName(i)]

\* a directory whose files Names(n) hold the entry lists kinds
Dir(n, kinds) ==
    [f \in {ZipName(i) : i \in 1..n} |->
        Archive(f, kinds[CHOOSE j \in 1..n : ZipName(j) = f])]

\* the environment fails no call, or one call of one goroutine
Plans(n, calls) ==
    {[i \in 1..n |-> "none"]}
    \cup {[i \in 1..n |-> IF i = w THEN c ELSE "none"] : w \in 1..n, c \in calls}

\* a directory of one to NumArchives archives, each one of ArchiveKinds
Init ==
    \E n \in 1..NumArchives :
        \E kinds \in [1..n -> ArchiveKinds], fails \in Plans(n, {"open", "rename"}) :
            Start(Names(n), Dir(n, kinds), fails)

\* a directory of one archive holding any entries, at most MaxEntries of them
InitFold ==
    \E n \in 0..MaxEntries :
        \E entries \in [1..n -> EntryIds], fails \in Plans(1, {"rename"}) :
            Start(Names(1), Dir(1, <<entries>>), fails)

Next ==
    \/ MainSpawn
    \/ MainWait
    \/ MainReturn
    \/ \E w \in Workers : GoAdd(w)
    \/ \E w \in Workers : TaskOpen(w)
    \/ \E w \in Workers : TaskEntry(w)
    \/ \E w \in Workers : TaskName(w)
    \/ \E w \in Workers : TaskStat(w)
    \/ \E w \in Workers : TaskRename(w)
    \/ \E w \in Workers : GoDone(w)
    \/ \E w \in Workers : GoRelease(w)

Spec == Init /\ [][Next]_vars

SpecFold == InitFold /\ [][Next]_vars

---------------------------------------------------------------------------
(* Properties *)

\* positions at which task has folded entries 1..idx of its archive without a panic
Folding == {"range", "stat", "rename", "defer", "release", "exit"}

EntryAt(w, j) == Entry[r[w].entries[j]]
\* entry j went through parseSfo: its name ends in param.sfo
SfoAt(w, j) == HasSuffix(EntryAt(w, j).name, ParamSfo)
\* the record parseSfo decodes from each entry of the model
DecodedEntry == [id \in EntryIds |-> parseSfo(Capture(Entry[id])).m]
\* the record parseSfo decoded from entry j
Decoded(w, j) == DecodedEntry[r[w].entries[j]]
\* the entries folded so far, and those among them with an APP_VER key
Seen(w) == {j \in 1..idx[w] : SfoAt(w, j)}
Qualifying(w) == {j \in Seen(w) : K_APP_VER \in DOMAIN Decoded(w, j)}

\* the greatest string of a finite set, "" for the empty set
MaxStr(set) ==
    IF set = {} THEN <<>> ELSE CHOOSE x \in set : \A y \in set : ~StrLess(x, y)

\* the largest element of a non-empty set of numbers
Last(set) == CHOOSE j \in set : \A k \in set : k <= j

\* the goroutine has just handed entry idx to parseSfo: the entry is a
\* param.sfo that opened and read
Parsed(w) ==
    /\ pc[w] \in Folding \cup {"panic"}
    /\ idx[w] > 0
    /\ SfoAt(w, idx[w])
    /\ ~EntryAt(w, idx[w]).openErr /\ ~EntryAt(w, idx[w]).readErr
    /\ pc[w] = "panic" => newName[w] = <<>>

\* C1: wg.Wait() returns only when task has run to completion for every archive.
C1_WaitJoinsAll ==
    mainpc = "return" => \A w \in Workers : pc[w] = "exit"

\* C2: a failure of one archive's task leaves every other archive processed to
\* its own outcome.
C2_FailureConfined ==
    \A w \in Workers :
        pc[w] = "panic" => \A o \in Workers \ {w} : pc[o] \in {"defer", "release", "exit"}

\* the header has the magic and offsets outside 0 <= KeyOffset <= DataOffset <= len
BadHeader(sfob) ==
    LET h == ReadHeader(sfob)
    IN  /\ h.Magic = Magic
        /\ ~(0 <= h.KeyOffset /\ h.KeyOffset <= h.DataOffset /\ h.DataOffset <= sfob.len)
\* C3: on a record with the right magic whose header violates
\* 0 <= KeyOffset <= DataOffset <= len(sfob), parseSfo does not panic and
\* returns the map holding REGION = "UNK" alone.
C3_BadHeaderIsMalformedRecord ==
    \A w \in Workers :
        (Parsed(w) /\ BadHeader(Capture(EntryAt(w, idx[w]))))
            => (pc[w] # "panic" /\ m[w] = DefaultMap)

\* the header passes the magic test and the key table slice; the value of
\* iteration in starts inside the buffer and runs past its end
GoodHeader(sfob) ==
    LET h == ReadHeader(sfob)
    IN  h.Magic = Magic /\ InRange(h.KeyOffset, h.DataOffset, sfob.len)
PastEnd(sfob, in) ==
    LET h == ReadHeader(sfob)
        start == StartOf(sfob, h, in)
    IN  /\ 0 <= start /\ start <= sfob.len
        /\ IndexAt(sfob, in).ParamLength > sfob.len - start
\* C4: when the value of one entry of a record runs past the end of the buffer,
\* parseSfo does not panic and every other entry of the record is in the
\* returned map with its own value.
C4_TruncatedValueClamped ==
    \A w \in Workers :
        Parsed(w) /\ GoodHeader(Capture(EntryAt(w, idx[w]))) =>
            LET sfob == Capture(EntryAt(w, idx[w]))
                h == ReadHeader(sfob)
                keys == KeysOf(sfob, h)
            IN  \A i \in 0..(Len(keys) - 1) :
                    PastEnd(sfob, i) =>
                        /\ pc[w] # "panic"
                        /\ \A j \in 0..(Len(keys) - 1) :
                              (keys[j + 1] # keys[i + 1]
                               /\ InRange(StartOf(sfob, h, j), EndOf(sfob, h, j), sfob.len))
                              => /\ keys[j + 1] \in DOMAIN m[w]
                                 /\ m[w][keys[j + 1]] =
                                      safeString(Slice(sfob, StartOf(sfob, h, j),
                                                       EndOf(sfob, h, j)))

\* C5: after the fold, appVer is the greatest APP_VER string, and version the
\* greatest VERSION string, of the records that hold an APP_VER key; the
\* comparison is the one of strings, and records without APP_VER count for
\* neither.
C5_HighestVersionsLexicographic ==
    \A w \in Workers :
        pc[w] \in Folding =>
            /\ data[w].appVer = MaxStr({Decoded(w, j)[K_APP_VER] : j \in Qualifying(w)})
            /\ data[w].version = MaxStr({Get(Decoded(w, j), K_VERSION) : j \in Qualifying(w)})
\* "2.00" and then "10.00" were folded, and appVer is "2.00"
C5_Witness ==
    \E w \in Workers :
        /\ pc[w] \in Folding
        /\ \E j, k \in Qualifying(w) :
              /\ j < k
              /\ Decoded(w, j)[K_APP_VER] = V_2_00
              /\ Decoded(w, k)[K_APP_VER] = V_10_00
        /\ data[w].appVer = V_2_00

\* C6: after the fold, title, titleId and region are the TITLE, TITLE_ID and
\* REGION of the last record in order that holds an APP_VER key, whichever
\* record gave appVer and version.
C6_LastQualifyingRecordNames ==
    \A w \in Workers :
        pc[w] \in Folding =>
            IF Qualifying(w) = {}
            THEN data[w].title = <<>> /\ data[w].titleId = <<>> /\ data[w].region = <<>>
            ELSE LET mp == Decoded(w, Last(Qualifying(w)))
                 IN  /\ data[w].title = Get(mp, K_TITLE)
                     /\ data[w].titleId = Get(mp, K_TITLE_ID)
                     /\ data[w].region = Get(mp, K_REGION)
\* the last record with APP_VER is not the one appVer came from, and gave the title
C6_Witness ==
    \E w \in Workers :
        /\ pc[w] \in Folding
        /\ Qualifying(w) # {}
        /\ LET mp == Decoded(w, Last(Qualifying(w)))
           IN  /\ mp[K_APP_VER] # data[w].appVer
               /\ data[w].title = Get(mp, K_TITLE)
               /\ data[w].title # <<>>

\* the goroutine has not reached os.Stat, and its file is where it was
NotRenaming(w) ==
    /\ pc[w] \notin {"stat", "rename", "panic"}
    /\ newName[w] = <<>>
    /\ outcome[w] = "none"
    /\ Exists(fs, files[w])
\* C7, as claimed: with no APP_VER key in any record of the archive the whole
\* NameData stays empty and neither os.Stat nor os.Rename is performed.
C7_NoAppVerEmptyDescriptor ==
    \A w \in Workers :
        (pc[w] \in Folding /\ Qualifying(w) = {}) => (data[w] = EmptyData /\ NotRenaming(w))
\* C7, amended: with no APP_VER key in any record of the archive, title,
\* appVer, version, titleId and region stay empty (ac still counts the records
\* of CATEGORY "ac") and neither os.Stat nor os.Rename is performed.
C7_NoAppVerNoRename ==
    \A w \in Workers :
        (pc[w] \in Folding /\ Qualifying(w) = {}) =>
            /\ [data[w] EXCEPT !.ac = 0] = EmptyData
            /\ NotRenaming(w)
\* a task ran to its end on an archive whose records hold TITLE and CATEGORY
\* "ac" but no APP_VER
C7_Witness ==
    \E w \in Workers :
        /\ pc[w] = "exit"
        /\ Qualifying(w) = {}
        /\ \E j \in Seen(w) :
              /\ Get(Decoded(w, j), K_TITLE) # <<>>
              /\ Get(Decoded(w, j), K_CATEGORY) = AC

\* what regions says of a TITLE_ID
RegionOf(tid) ==
    IF Len(tid) >= 4 /\ SubSeq(tid, 1, 4) \in DOMAIN regions
    THEN regions[SubSeq(tid, 1, 4)] ELSE UNK
\* C8: a record parseSfo returned with a TITLE_ID key has the REGION that
\* regions gives for the first four characters of that TITLE_ID, "UNK" when
\* regions does not hold them.
C8_RegionFromFinalTitleId ==
    \A w \in Workers :
        (pc[w] \in Folding /\ K_TITLE_ID \in DOMAIN m[w])
            => m[w][K_REGION] = RegionOf(m[w][K_TITLE_ID])

\* C9: goroutines whose archives get the same target can all pass the os.Stat
\* test and all rename; then of their archives the one renamed last is all
\* that is left, under that name, and none of them printed "File Exists".
C9_BothRenamedOneLost ==
    \A a \in Workers :
        outcome[a] = "OK" =>
            LET same == {files[b] : b \in {w \in Workers : /\ outcome[w] = "OK"
                                                          /\ newName[w] = newName[a]}}
            IN  /\ Exists(fs, newName[a])
                /\ fs[newName[a]].origin \in same
                /\ \A n \in DOMAIN fs : fs[n].origin \in same => n = newName[a]
\* both goroutines renamed onto the same target
C9_Witness ==
    \E a, b \in Workers :
        a # b /\ outcome[a] = "OK" /\ outcome[b] = "OK" /\ newName[a] = newName[b]

\* the folded records of CATEGORY "ac"; a step that folds the record just
\* folded once more
AcCount(w) == Cardinality({j \in Seen(w) : Get(Decoded(w, j), K_CATEGORY) = AC})
FoldsAgain(w) ==
    /\ pc[w] = "range" /\ pc'[w] = "range"
    /\ idx[w] >= 1 /\ idx'[w] = idx[w] + 1
    /\ SfoAt(w, idx[w])
    /\ r[w].entries[idx[w] + 1] = r[w].entries[idx[w]]
\* C10: after the fold, ac is the number of folded records whose CATEGORY is
\* "ac", with or without APP_VER; and folding the record just folded once more
\* adds its CATEGORY to ac and leaves title, appVer and version as they were.
C10_AcCountsEveryRecord ==
    /\ [](\A w \in Workers : pc[w] \in Folding => data[w].ac = AcCount(w))
    /\ [][\A w \in Workers :
            FoldsAgain(w) =>
                /\ data'[w].ac = data[w].ac
                                 + (IF Get(Decoded(w, idx[w]), K_CATEGORY) = AC THEN 1 ELSE 0)
                /\ data'[w].title = data[w].title
                /\ data'[w].appVer = data[w].appVer
                /\ data'[w].version = data[w].version]_vars
\* a record with APP_VER and CATEGORY "ac" was folded twice
C10_Witness ==
    \E w \in Workers :
        /\ pc[w] \in Folding
        /\ idx[w] = 2 /\ Seen(w) = {1, 2} /\ Qualifying(w) = {1, 2}
        /\ r[w].entries[1] = r[w].entries[2]
        /\ data[w].ac = 2
        /\ data[w].title # <<>>

=============================================================================
